---- MODULE Spec2Model ----
(***************************************************************************)
(* A model of fasta-cleaner (src/src/main.rs): the streaming automaton     *)
(* clean_fasta_file, its byte cursor read_character / ReadResult::unwrap,  *)
(* and the byte classification it uses.  Bytes are their ASCII codes.      *)
(***************************************************************************)
EXTENDS Integers, Sequences, FiniteSets, TLC

VARIABLES
    input,        \* the bytes the cursor has handed to the automaton so far
    state,        \* FastaState
    output,       \* the bytes written to the sink so far
    status,       \* "running" (in the loop), "done" (break), "panic"
    error,        \* the panic message, "" when there is none
    last_read,    \* what reader.read_exact returned in the latest loop iteration
    pass,         \* 1: the run on the source; 2: the run on the first run's output
    prev_output   \* in pass 2: the output of pass 1

vars == <<input, state, output, status, error, last_read, pass, prev_output>>

----------------------------------------------------------------------------
(* Byte literals of the source. *)
LF == 10
CR == 13
GT == 62
TAB == 9
FF == 12
SPACE == 32
UPPER_A == 65
UPPER_C == 67
UPPER_G == 71
UPPER_T == 84
LOWER_A == 97
LOWER_Z == 122

(* Bounds of the model. *)
MaxLen == 5        \* inputs over Alphabet have at most MaxLen bytes
MaxCoreLen == 7    \* inputs over CoreAlphabet have at most MaxCoreLen bytes
MaxFairLen == 6    \* the sources of FairSpec: at most MaxFairLen bytes of CoreAlphabet

(* '\n', '\r', ' ', '>', 'A', 'c', 'x' *)
Alphabet == {10, 13, 32, 62, 65, 99, 120}
(* '\n', '>', 'A', 'x' *)
CoreAlphabet == {10, 62, 65, 120}

(* The input of tests::test. *)
RefInput ==
    <<13, 62, 87, 71, 67, 97, 67, 10, 10,
      65, 65, 67, 67, 99, 120, 88, 65, 65, 10,
      97, 97, 99, 99, 10,
      46, 101, 102, 51, 52, 10,
      67, 71, 71, 10,
      116, 103, 116, 99, 103, 99, 103, 116, 97, 103, 99, 103, 116, 103, 97,
      116, 99, 103, 116, 103, 116, 97, 103, 116, 99, 103, 116, 97, 103,
      13, 46, 13, 62, 102, 10, 84, 84, 84>>

(* The expected output of tests::test. *)
RefOutput ==
    <<62, 87, 71, 67, 97, 67, 10,
      65, 65, 67, 67, 67, 65, 65, 65, 65, 10,
      67, 67, 67, 71, 71, 84, 71, 84, 67, 10,
      71, 67, 71, 84, 65, 71, 67, 71, 84, 10,
      71, 65, 84, 67, 71, 84, 71, 84, 65, 10,
      71, 84, 67, 71, 84, 65, 71, 10,
      62, 102, 10,
      84, 84, 84, 10>>

----------------------------------------------------------------------------
(* Option<usize>: None is the empty sequence, Some(w) the sequence <<w>>. *)
None == <<>>
Some(w) == <<w>>

(* A whitespace test that knows the blank only. *)
is_ascii_whitespace_BlankOnly(c) == c = SPACE

(* u8::is_ascii_whitespace: space, tab, line feed, form feed, carriage return. *)
is_ascii_whitespace(c) == c \in {SPACE, TAB, LF, FF, CR}

(* A cleaner that forgets the case folding. *)
to_ascii_uppercase_Forgotten(c) == c

(* u8::to_ascii_uppercase *)
to_ascii_uppercase(c) == IF c >= LOWER_A /\ c <= LOWER_Z THEN c - 32 ELSE c

(* matches!(character, b'A' | b'C' | b'G' | b'T') *)
matches_ACGT(c) == c \in {UPPER_A, UPPER_C, UPPER_G, UPPER_T}

(* ReadResult<u8>, as read_character returns it. *)
ReadOk(c) == [kind |-> "Ok", value |-> c]
ReadEof == [kind |-> "Eof", value |-> 0]
ReadError == [kind |-> "Error", value |-> 0]

(* io::Result<()> of reader.read_exact on the one-byte buffer: Ok (value is *)
(* the byte now in the buffer), Err of kind UnexpectedEof, Err of any other *)
(* kind.  NoRead: nothing was read yet.                                      *)
IoOk(c) == [kind |-> "Ok", value |-> c]
IoUnexpectedEof == [kind |-> "UnexpectedEof", value |-> 0]
IoOtherError == [kind |-> "Other", value |-> 0]
NoRead == [kind |-> "NoRead", value |-> 0]

(* A read_buffer that reports the end of the stream as a failure. *)
read_buffer_EofIsError(io) ==
    IF io.kind = "Ok" THEN ReadOk(io.value) ELSE ReadError

(* read_buffer with length 1: the result of read_exact as a ReadResult; the *)
(* value of Ok is the byte left in the buffer.                               *)
read_buffer(io) ==
    CASE io.kind = "Ok" -> ReadOk(io.value)
      [] io.kind = "UnexpectedEof" -> ReadEof
      [] OTHER -> ReadError

(* read_character: buffer[0] of a successful read_buffer, Eof and Error     *)
(* passed on.                                                                *)
read_character(io) ==
    LET b == read_buffer(io)
    IN  CASE b.kind = "Ok" -> ReadOk(b.value)
          [] b.kind = "Eof" -> ReadEof
          [] OTHER -> ReadError

(* FastaState *)
StInit == [tag |-> "Init"]
StRecordHeader(width) == [tag |-> "RecordHeader", width |-> width]
StRecordHeaderLineBreak(width) == [tag |-> "RecordHeaderLineBreak", width |-> width]
StRecordSequenceWithoutWidth(cw, row) ==
    [tag |-> "RecordSequenceWithoutWidth", current_width |-> cw,
     current_output_row_width |-> row]
StRecordSequenceLineBreak(width, row) ==
    [tag |-> "RecordSequenceLineBreak", width |-> width,
     current_output_row_width |-> row]
StRecordSequence(width, row) ==
    [tag |-> "RecordSequence", width |-> width, current_output_row_width |-> row]

(* The outcome of one loop iteration: the next state, the bytes written,   *)
(* and whether the loop goes on, breaks, or the process panics.            *)
Continue(st, out) == [state |-> st, out |-> out, status |-> "running", error |-> ""]
Break(st, out) == [state |-> st, out |-> out, status |-> "done", error |-> ""]
Panic(st, msg) == [state |-> st, out |-> <<>>, status |-> "panic", error |-> msg]

MsgBeforeFirst == "Found non-whitespace character before first fasta record."
MsgWithinSequence == "Encountered '>' within sequence."
MsgReadError == "read error"

(* An Init arm that skips every byte up to the first '>'. *)
InitArm_SkipsAnyByte(st, r) ==
    IF r.kind = "Eof" THEN Break(st, <<>>)
    ELSE IF r.value = GT THEN Continue(StRecordHeader(None), <<GT>>)
    ELSE Continue(st, <<>>)

(* FastaState::Init *)
InitArm(st, r) ==
    IF r.kind = "Eof" THEN Break(st, <<>>)
    ELSE IF r.value = GT THEN Continue(StRecordHeader(None), <<GT>>)
    ELSE IF ~is_ascii_whitespace(r.value) THEN Panic(st, MsgBeforeFirst)
    ELSE Continue(st, <<>>)

(* A header arm that closes a truncated header line at end of input. *)
RecordHeaderArm_EofClosesLine(st, r) ==
    IF r.kind = "Eof" THEN Break(st, <<LF>>)
    ELSE IF r.value \in {LF, CR}
         THEN Continue(StRecordHeaderLineBreak(st.width), <<LF>>)
    ELSE Continue(st, <<r.value>>)

(* A header arm that case-folds the header text like sequence bytes. *)
RecordHeaderArm_Uppercases(st, r) ==
    IF r.kind = "Eof" THEN Break(st, <<>>)
    ELSE IF r.value \in {LF, CR}
         THEN Continue(StRecordHeaderLineBreak(st.width), <<LF>>)
    ELSE Continue(st, <<to_ascii_uppercase(r.value)>>)

(* FastaState::RecordHeader { width } *)
RecordHeaderArm(st, r) ==
    IF r.kind = "Eof" THEN Break(st, <<>>)
    ELSE IF r.value \in {LF, CR}
         THEN Continue(StRecordHeaderLineBreak(st.width), <<LF>>)
    ELSE Continue(st, <<r.value>>)

(* A header-boundary arm that closes the empty record with a blank line. *)
RecordHeaderLineBreakArm_BlankLineBeforeHeader(st, r) ==
    IF r.kind = "Eof" THEN Break(st, <<>>)
    ELSE IF r.value \in {LF, CR} THEN Continue(st, <<>>)
    ELSE IF r.value = GT THEN Continue(StRecordHeader(st.width), <<LF, GT>>)
    ELSE LET character == to_ascii_uppercase(r.value) IN
         IF st.width # None
         THEN Continue(StRecordSequence(st.width[1], 1), <<character>>)
         ELSE Continue(StRecordSequenceWithoutWidth(1, 1), <<character>>)

(* A header-boundary arm that filters the first body byte but still counts *)
(* it in the row.                                                           *)
RecordHeaderLineBreakArm_FiltersButCounts(st, r) ==
    IF r.kind = "Eof" THEN Break(st, <<>>)
    ELSE IF r.value \in {LF, CR} THEN Continue(st, <<>>)
    ELSE IF r.value = GT THEN Continue(StRecordHeader(st.width), <<GT>>)
    ELSE LET character == to_ascii_uppercase(r.value)
             written == IF matches_ACGT(character) THEN <<character>> ELSE <<>>
         IN
         IF st.width # None
         THEN Continue(StRecordSequence(st.width[1], 1), written)
         ELSE Continue(StRecordSequenceWithoutWidth(1, 1), written)

(* FastaState::RecordHeaderLineBreak { width } *)
RecordHeaderLineBreakArm(st, r) ==
    IF r.kind = "Eof" THEN Break(st, <<>>)
    ELSE IF r.value \in {LF, CR} THEN Continue(st, <<>>)
    ELSE IF r.value = GT THEN Continue(StRecordHeader(st.width), <<GT>>)
    ELSE LET character == to_ascii_uppercase(r.value) IN
         IF st.width # None
         THEN Continue(StRecordSequence(st.width[1], 1), <<character>>)
         ELSE Continue(StRecordSequenceWithoutWidth(1, 1), <<character>>)

(* A measuring arm that counts only the dropped bytes in current_width. *)
RecordSequenceWithoutWidthArm_CountsDroppedOnly(st, r) ==
    LET cw == st.current_width
        row == st.current_output_row_width
    IN  IF r.kind = "Eof" THEN Break(st, <<LF>>)
        ELSE IF r.value \in {LF, CR}
             THEN IF row = cw
                  THEN Continue(StRecordSequenceLineBreak(cw, 0), <<LF>>)
                  ELSE Continue(StRecordSequenceLineBreak(cw, row), <<>>)
        ELSE IF r.value = GT THEN Panic(st, MsgWithinSequence)
        ELSE LET character == to_ascii_uppercase(r.value) IN
             IF matches_ACGT(character)
             THEN Continue(StRecordSequenceWithoutWidth(cw, row + 1), <<character>>)
             ELSE Continue(StRecordSequenceWithoutWidth(cw + 1, row), <<>>)

(* A measuring arm that takes the count of written bytes for the width. *)
RecordSequenceWithoutWidthArm_WidthFromRow(st, r) ==
    LET cw == st.current_width
        row == st.current_output_row_width
    IN  IF r.kind = "Eof" THEN Break(st, <<LF>>)
        ELSE IF r.value \in {LF, CR}
             THEN IF row = cw
                  THEN Continue(StRecordSequenceLineBreak(row, 0), <<LF>>)
                  ELSE Continue(StRecordSequenceLineBreak(row, row), <<>>)
        ELSE IF r.value = GT THEN Panic(st, MsgWithinSequence)
        ELSE LET character == to_ascii_uppercase(r.value) IN
             IF matches_ACGT(character)
             THEN Continue(StRecordSequenceWithoutWidth(cw + 1, row + 1), <<character>>)
             ELSE Continue(StRecordSequenceWithoutWidth(cw + 1, row), <<>>)

(* FastaState::RecordSequenceWithoutWidth { current_width, current_output_row_width } *)
RecordSequenceWithoutWidthArm(st, r) ==
    LET cw == st.current_width
        row == st.current_output_row_width
    IN  IF r.kind = "Eof" THEN Break(st, <<LF>>)
        ELSE IF r.value \in {LF, CR}
             THEN IF row = cw
                  THEN Continue(StRecordSequenceLineBreak(cw, 0), <<LF>>)
                  ELSE Continue(StRecordSequenceLineBreak(cw, row), <<>>)
        ELSE IF r.value = GT THEN Panic(st, MsgWithinSequence)
        ELSE LET character == to_ascii_uppercase(r.value) IN
             IF matches_ACGT(character)
             THEN Continue(StRecordSequenceWithoutWidth(cw + 1, row + 1), <<character>>)
             ELSE Continue(StRecordSequenceWithoutWidth(cw + 1, row), <<>>)

(* A sequence arm that wraps one byte late (row > width for row = width). *)
SequenceCharacter_WrapsLate(width, row, c) ==
    LET character == to_ascii_uppercase(c)
        wrap == (row > width)
        row1 == IF wrap THEN 0 ELSE row
        nl == IF wrap THEN <<LF>> ELSE <<>>
    IN  IF matches_ACGT(character)
        THEN Continue(StRecordSequence(width, row1 + 1),
                      nl \o <<to_ascii_uppercase(character)>>)
        ELSE Continue(StRecordSequence(width, row1), nl)

(* The shared body of the "any other character" arms of RecordSequenceLineBreak *)
(* and RecordSequence (lines 201-220 and 242-261): wrap when the row is full,   *)
(* then filter, count and write the byte.                                        *)
SequenceCharacter(width, row, c) ==
    LET character == to_ascii_uppercase(c)
        wrap == (row = width)
        row1 == IF wrap THEN 0 ELSE row
        nl == IF wrap THEN <<LF>> ELSE <<>>
    IN  IF matches_ACGT(character)
        THEN Continue(StRecordSequence(width, row1 + 1),
                      nl \o <<to_ascii_uppercase(character)>>)
        ELSE Continue(StRecordSequence(width, row1), nl)

(* A line-break arm that absorbs only '\n', taking '\r' for a sequence byte. *)
RecordSequenceLineBreakArm_AbsorbsOnlyLF(st, r) ==
    LET width == st.width
        row == st.current_output_row_width
    IN  IF r.kind = "Eof" THEN Break(st, <<LF>>)
        ELSE IF r.value = LF THEN Continue(st, <<>>)
        ELSE IF r.value = GT
             THEN Continue(StRecordHeader(Some(width)),
                           (IF row > 0 THEN <<LF>> ELSE <<>>) \o <<GT>>)
        ELSE SequenceCharacter(width, row, r.value)

(* A line-break arm that closes the row at end of input only when it is open. *)
RecordSequenceLineBreakArm_EofFlushesOpenRow(st, r) ==
    LET width == st.width
        row == st.current_output_row_width
    IN  IF r.kind = "Eof" THEN Break(st, IF row > 0 THEN <<LF>> ELSE <<>>)
        ELSE IF r.value \in {LF, CR} THEN Continue(st, <<>>)
        ELSE IF r.value = GT
             THEN Continue(StRecordHeader(Some(width)),
                           (IF row > 0 THEN <<LF>> ELSE <<>>) \o <<GT>>)
        ELSE SequenceCharacter(width, row, r.value)

(* A line-break arm that opens the next header without closing an open row. *)
RecordSequenceLineBreakArm_GtNeverFlushes(st, r) ==
    LET width == st.width
        row == st.current_output_row_width
    IN  IF r.kind = "Eof" THEN Break(st, <<LF>>)
        ELSE IF r.value \in {LF, CR} THEN Continue(st, <<>>)
        ELSE IF r.value = GT THEN Continue(StRecordHeader(Some(width)), <<GT>>)
        ELSE SequenceCharacter(width, row, r.value)

(* FastaState::RecordSequenceLineBreak { width, current_output_row_width } *)
RecordSequenceLineBreakArm(st, r) ==
    LET width == st.width
        row == st.current_output_row_width
    IN  IF r.kind = "Eof" THEN Break(st, <<LF>>)
        ELSE IF r.value \in {LF, CR} THEN Continue(st, <<>>)
        ELSE IF r.value = GT
             THEN Continue(StRecordHeader(Some(width)),
                           (IF row > 0 THEN <<LF>> ELSE <<>>) \o <<GT>>)
        ELSE SequenceCharacter(width, row, r.value)

(* A sequence arm that takes a '>' in mid line for the next header. *)
RecordSequenceArm_GtOpensHeader(st, r) ==
    LET width == st.width
        row == st.current_output_row_width
    IN  IF r.kind = "Eof" THEN Break(st, <<LF>>)
        ELSE IF r.value \in {LF, CR}
             THEN IF row = width
                  THEN Continue(StRecordSequenceLineBreak(width, 0), <<LF>>)
                  ELSE Continue(StRecordSequenceLineBreak(width, row), <<>>)
        ELSE IF r.value = GT
             THEN Continue(StRecordHeader(Some(width)),
                           (IF row > 0 THEN <<LF>> ELSE <<>>) \o <<GT>>)
        ELSE SequenceCharacter(width, row, r.value)

(* A sequence arm that stops at end of input without the closing '\n'. *)
RecordSequenceArm_EofWritesNothing(st, r) ==
    LET width == st.width
        row == st.current_output_row_width
    IN  IF r.kind = "Eof" THEN Break(st, <<>>)
        ELSE IF r.value \in {LF, CR}
             THEN IF row = width
                  THEN Continue(StRecordSequenceLineBreak(width, 0), <<LF>>)
                  ELSE Continue(StRecordSequenceLineBreak(width, row), <<>>)
        ELSE IF r.value = GT THEN Panic(st, MsgWithinSequence)
        ELSE SequenceCharacter(width, row, r.value)

(* FastaState::RecordSequence { width, current_output_row_width } *)
RecordSequenceArm(st, r) ==
    LET width == st.width
        row == st.current_output_row_width
    IN  IF r.kind = "Eof" THEN Break(st, <<LF>>)
        ELSE IF r.value \in {LF, CR}
             THEN IF row = width
                  THEN Continue(StRecordSequenceLineBreak(width, 0), <<LF>>)
                  ELSE Continue(StRecordSequenceLineBreak(width, row), <<>>)
        ELSE IF r.value = GT THEN Panic(st, MsgWithinSequence)
        ELSE SequenceCharacter(width, row, r.value)

(* ReadResult::unwrap followed by the match on the state: one iteration of *)
(* the loop of clean_fasta_file on the cursor result r.                     *)
LoopIteration(st, r) ==
    IF r.kind = "Error" THEN Panic(st, MsgReadError)
    ELSE CASE st.tag = "Init" -> InitArm(st, r)
           [] st.tag = "RecordHeader" -> RecordHeaderArm(st, r)
           [] st.tag = "RecordHeaderLineBreak" -> RecordHeaderLineBreakArm(st, r)
           [] st.tag = "RecordSequenceWithoutWidth" -> RecordSequenceWithoutWidthArm(st, r)
           [] st.tag = "RecordSequenceLineBreak" -> RecordSequenceLineBreakArm(st, r)
           [] st.tag = "RecordSequence" -> RecordSequenceArm(st, r)

(* clean_fasta_file on a whole in-memory byte slice (as tests::test_file   *)
(* calls it): the loop run from Init until it breaks or panics.  A slice    *)
(* never fails to read; its end is Eof.                                     *)
RECURSIVE RunLoop(_, _, _)
RunLoop(st, out, rest) ==
    LET r == read_character(IF rest = <<>> THEN IoUnexpectedEof ELSE IoOk(Head(rest)))
        n == LoopIteration(st, r)
    IN  IF n.status = "running"
        THEN RunLoop(n.state, out \o n.out, Tail(rest))
        ELSE [state |-> n.state, output |-> out \o n.out,
              status |-> n.status, error |-> n.error,
              unread |-> IF rest = <<>> THEN 0 ELSE Len(rest) - 1]

clean_fasta_file(bytes) == RunLoop(StInit, <<>>, bytes)

----------------------------------------------------------------------------
(* The byte source: what reader.read_exact can return next.  The source is *)
(* any byte stream of bounded length over Alphabet, or over CoreAlphabet    *)
(* with the longer bound, or the input of tests::test.                      *)
IsPrefix(s, t) == Len(s) <= Len(t) /\ SubSeq(t, 1, Len(s)) = s

OverCore(s) == \A i \in 1..Len(s) : s[i] \in CoreAlphabet

NextBytes ==
    {c \in Alphabet : Len(input) < MaxLen}
    \cup {c \in CoreAlphabet : Len(input) < MaxCoreLen /\ OverCore(input)}
    \cup {c \in 0..255 : /\ Len(input) < Len(RefInput)
                         /\ IsPrefix(input, RefInput)
                         /\ c = RefInput[Len(input) + 1]}

ReaderResults == {IoOk(c) : c \in NextBytes} \cup {IoUnexpectedEof, IoOtherError}

Init ==
    /\ input = <<>>
    /\ state = StInit
    /\ output = <<>>
    /\ status = "running"
    /\ error = ""
    /\ last_read = NoRead
    /\ pass = 1
    /\ prev_output = <<>>

(* A loop iteration that looks at the next byte without taking it from the *)
(* reader.                                                                  *)
Iterate_PeeksOnly ==
    /\ status = "running"
    /\ \E io \in ReaderResults :
         LET r == read_character(io)
             n == LoopIteration(state, r)
         IN
         /\ last_read' = io
         /\ input' = input
         /\ state' = n.state
         /\ output' = output \o n.out
         /\ status' = n.status
         /\ error' = n.error
    /\ UNCHANGED <<pass, prev_output>>

(* One iteration of the loop: read_character(..).unwrap(), the match arm *)
(* of the current state, and the writes it makes.                        *)
Iterate ==
    /\ status = "running"
    /\ \E io \in ReaderResults :
         LET r == read_character(io)
             n == LoopIteration(state, r)
         IN
         /\ last_read' = io
         /\ input' = IF r.kind = "Ok" THEN Append(input, r.value) ELSE input
         /\ state' = n.state
         /\ output' = output \o n.out
         /\ status' = n.status
         /\ error' = n.error
    /\ UNCHANGED <<pass, prev_output>>

StepInit ==
    /\ state.tag = "Init"
    /\ Iterate

StepRecordHeader ==
    /\ state.tag = "RecordHeader"
    /\ Iterate

StepRecordHeaderLineBreak ==
    /\ state.tag = "RecordHeaderLineBreak"
    /\ Iterate

StepRecordSequenceWithoutWidth ==
    /\ state.tag = "RecordSequenceWithoutWidth"
    /\ Iterate

StepRecordSequenceLineBreak ==
    /\ state.tag = "RecordSequenceLineBreak"
    /\ Iterate

StepRecordSequence ==
    /\ state.tag = "RecordSequence"
    /\ Iterate


(* The cleaner run again on the file it has just written. *)
Rerun ==
    /\ status = "done"
    /\ pass = 1
    /\ LET res == clean_fasta_file(output) IN
       /\ input' = SubSeq(output, 1, Len(output) - res.unread)
       /\ state' = res.state
       /\ output' = res.output
       /\ status' = res.status
       /\ error' = res.error
       /\ last_read' = IF res.status = "done"
                        THEN IoUnexpectedEof
                        ELSE IoOk(output[Len(output) - res.unread])
    /\ pass' = 2
    /\ prev_output' = output

Next ==
    \/ StepInit
    \/ StepRecordHeader
    \/ StepRecordHeaderLineBreak
    \/ StepRecordSequenceWithoutWidth
    \/ StepRecordSequenceLineBreak
    \/ StepRecordSequence
    \/ Rerun

(* The runs on the sources of at most MaxFairLen bytes of CoreAlphabet, with the loop of *)
(* clean_fasta_file running on: an iteration that can be taken is taken.     *)
ShortSource == Len(input) <= MaxFairLen /\ OverCore(input)

FairLoop ==
    \/ StepInit /\ ShortSource'
    \/ StepRecordHeader /\ ShortSource'
    \/ StepRecordHeaderLineBreak /\ ShortSource'
    \/ StepRecordSequenceWithoutWidth /\ ShortSource'
    \/ StepRecordSequenceLineBreak /\ ShortSource'
    \/ StepRecordSequence /\ ShortSource'

FairNext ==
    \/ FairLoop
    \/ Rerun

FairSpec == Init /\ [][FairNext]_vars /\ WF_vars(FairLoop)

Spec == Init /\ [][Next]_vars

----------------------------------------------------------------------------
(* The FASTA reading of a byte stream, used to state the properties.  It is *)
(* written from the format (a record is a '>' line and the lines up to the  *)
(* next '>' line), not from the automaton.                                  *)

Terminators == {10, 13}
AsciiWhitespace == {9, 10, 12, 13, 32}

(* The canonical base a byte stands for, 0 when it stands for none. *)
BaseOf(c) ==
    CASE c \in {65, 97} -> 65
      [] c \in {67, 99} -> 67
      [] c \in {71, 103} -> 71
      [] c \in {84, 116} -> 84
      [] OTHER -> 0

(* The least index of s holding a byte of S, 0 when there is none. *)
FirstIn(s, S) ==
    IF \E i \in 1..Len(s) : s[i] \in S
    THEN CHOOSE i \in 1..Len(s) : s[i] \in S /\ \A j \in 1..(i - 1) : s[j] \notin S
    ELSE 0

FirstNotIn(s, S) ==
    IF \E i \in 1..Len(s) : s[i] \notin S
    THEN CHOOSE i \in 1..Len(s) : s[i] \notin S /\ \A j \in 1..(i - 1) : s[j] \in S
    ELSE 0

From(s, i) == SubSeq(s, i, Len(s))

Last(s) == s[Len(s)]

(* The kept bases of a sequence body, uppercased, in order. *)
RECURSIVE KeptBases(_)
KeptBases(s) ==
    IF s = <<>> THEN <<>>
    ELSE (IF BaseOf(Head(s)) # 0 THEN <<BaseOf(Head(s))>> ELSE <<>>) \o KeptBases(Tail(s))

(* The records of an input that starts with '>': header is the text between *)
(* the '>' and its line terminator, body the bytes up to the next '>'.       *)
RECURSIVE RecordsFrom(_)
RecordsFrom(s) ==
    IF s = <<>> THEN <<>>
    ELSE LET t == FirstIn(s, Terminators)
             header == IF t = 0 THEN Tail(s) ELSE SubSeq(s, 2, t - 1)
             rest == IF t = 0 THEN <<>> ELSE From(s, t + 1)
             g == FirstIn(rest, {62})
             body == IF g = 0 THEN rest ELSE SubSeq(rest, 1, g - 1)
         IN  <<[header |-> header, body |-> body, terminated |-> t # 0]>>
             \o (IF g = 0 THEN <<>> ELSE RecordsFrom(From(rest, g)))

(* The records of an input: leading whitespace is skipped; an input whose   *)
(* first other byte is not '>' has none.                                     *)
InRecords(s) ==
    LET k == FirstNotIn(s, AsciiWhitespace)
    IN  IF k = 0 \/ s[k] # 62 THEN <<>> ELSE RecordsFrom(From(s, k))

(* The lines of an output: the pieces that '\n' ends, and the unended rest. *)
RECURSIVE OutLines(_)
OutLines(s) ==
    IF s = <<>> THEN <<>>
    ELSE LET k == FirstIn(s, {10})
         IN  IF k = 0 THEN <<s>>
             ELSE <<SubSeq(s, 1, k - 1)>> \o OutLines(From(s, k + 1))

IsHeaderLine(l) == l # <<>> /\ l[1] = 62

(* The records of an output: each header line with the sequence lines that *)
(* follow it.  A sequence line before any header opens a headerless record. *)
RECURSIVE GroupLines(_, _)
GroupLines(lines, acc) ==
    IF lines = <<>> THEN acc
    ELSE LET l == Head(lines) IN
         IF IsHeaderLine(l)
         THEN GroupLines(Tail(lines), Append(acc, [header |-> Tail(l), lines |-> <<>>]))
         ELSE IF acc = <<>>
         THEN GroupLines(Tail(lines), <<[header |-> <<>>, lines |-> <<l>>]>>)
         ELSE GroupLines(Tail(lines),
                         [acc EXCEPT ![Len(acc)].lines = Append(@, l)])

OutRecords(s) == GroupLines(OutLines(s), <<>>)

RECURSIVE Concat(_)
Concat(ls) == IF ls = <<>> THEN <<>> ELSE Head(ls) \o Concat(Tail(ls))

(* The bytes of a body that are not line terminators. *)
HasSequence(body) == FirstNotIn(body, Terminators) # 0

(* The first sequence line of a body: its bytes, and whether a terminator   *)
(* ends it.                                                                  *)
FirstLine(body) ==
    LET a == FirstNotIn(body, Terminators)
        tail == From(body, a)
        e == FirstIn(tail, Terminators)
    IN  [bytes |-> IF e = 0 THEN tail ELSE SubSeq(tail, 1, e - 1), ended |-> e # 0]

(* The first sequence line of the first record that has a sequence body;    *)
(* none: an empty, unended line.                                             *)
RECURSIVE FirstSequenceLineOf(_)
FirstSequenceLineOf(recs) ==
    IF recs = <<>> THEN [bytes |-> <<>>, ended |-> FALSE]
    ELSE IF HasSequence(Head(recs).body) THEN FirstLine(Head(recs).body)
    ELSE FirstSequenceLineOf(Tail(recs))

FirstSequenceLine(s) == FirstSequenceLineOf(InRecords(s))

Clean == status = "done"

----------------------------------------------------------------------------
(* C1. Idempotence: when a run finishes cleanly with output O, the run on O *)
(* finishes cleanly too and writes exactly O again.                         *)
C1_Idempotence ==
    pass = 2 => (status = "done" /\ output = prev_output)

(* C2. Alphabet invariant: after a clean run every byte of every output     *)
(* line that is not a header line is one of 'A', 'C', 'G', 'T'.             *)
C2_AlphabetInvariant ==
    Clean =>
        \A k \in 1..Len(OutLines(output)) :
            LET l == OutLines(output)[k] IN
            ~IsHeaderLine(l) => \A i \in 1..Len(l) : l[i] \in {65, 67, 71, 84}

(* C3. Filtering correctness: after a clean run the output has the input's  *)
(* records, and the sequence lines of each, joined, are the kept bases of   *)
(* its input body, uppercased, in order.                                    *)
C3_FilteringCorrectness ==
    Clean =>
        LET ins == InRecords(input)
            outs == OutRecords(output)
        IN  /\ Len(outs) = Len(ins)
            /\ \A i \in 1..Len(ins) : Concat(outs[i].lines) = KeptBases(ins[i].body)

(* C4. Width invariant: with w the raw byte count of the first sequence     *)
(* line of the first record that has a sequence body, after a clean run     *)
(* every sequence line of a record but its last has exactly w bytes and the *)
(* last has at most w.                                                      *)
C4_WidthInvariant ==
    Clean =>
        LET w == Len(FirstSequenceLine(input).bytes)
            outs == OutRecords(output)
        IN  \A i \in 1..Len(outs) :
                \A k \in 1..Len(outs[i].lines) :
                    /\ k < Len(outs[i].lines) => Len(outs[i].lines[k]) = w
                    /\ k = Len(outs[i].lines) => Len(outs[i].lines[k]) <= w

(* A clean first run whose first sequence line has a dropped byte, whose    *)
(* width is at least 2 and whose output wraps a record over two lines.      *)
C4_Witness ==
    /\ Clean
    /\ pass = 1
    /\ Len(FirstSequenceLine(input).bytes) >= 2
    /\ KeptBases(FirstSequenceLine(input).bytes) # FirstSequenceLine(input).bytes
    /\ \E i \in 1..Len(OutRecords(output)) : Len(OutRecords(output)[i].lines) >= 2

(* C5. Header passthrough: after a clean run the output has one header line *)
(* per input record, in order, each holding the input header's bytes        *)
(* unchanged.                                                               *)
C5_HeaderPassthrough ==
    Clean =>
        LET ins == InRecords(input)
            outs == OutRecords(output)
        IN  /\ Len(outs) = Len(ins)
            /\ \A i \in 1..Len(ins) : outs[i].header = ins[i].header

(* A clean first run over two records, one header holding a '>' and a byte  *)
(* that is no base.                                                         *)
C5_Witness ==
    /\ Clean
    /\ pass = 1
    /\ Len(InRecords(input)) >= 2
    /\ \E i \in 1..Len(InRecords(input)) :
         LET h == InRecords(input)[i].header IN
         /\ \E j \in 1..Len(h) : h[j] = 62
         /\ \E j \in 1..Len(h) : h[j] = 120

(* C6. Reference scenario: on the input of tests::test the run meets no     *)
(* malformed-input error and, at end of input, has written exactly the      *)
(* expected output.                                                         *)
C6_ReferenceScenario ==
    /\ IsPrefix(input, RefInput) /\ pass = 1 => error \in {"", MsgReadError}
    /\ input = RefInput /\ pass = 1 /\ Clean => output = RefOutput

C6_Witness ==
    input = RefInput /\ pass = 1 /\ Clean /\ output = RefOutput

(* The wrap width a state carries, None when it carries none. *)
StateWidth(st) ==
    CASE st.tag \in {"Init", "RecordSequenceWithoutWidth"} -> None
      [] st.tag \in {"RecordHeader", "RecordHeaderLineBreak"} -> st.width
      [] OTHER -> Some(st.width)

(* C7. Wrap-width inference and immutability: in every state the width the  *)
(* state carries is None until a line terminator has ended the first        *)
(* sequence line of the first record with a sequence body, and from then on *)
(* it is the raw byte count of that line.                                   *)
C7_WidthInference ==
    LET first == FirstSequenceLine(input)
    IN  StateWidth(state) = IF first.ended THEN Some(Len(first.bytes)) ELSE None

(* The width, measured on a line with a dropped byte, carried into the      *)
(* header of a later record.                                                *)
C7_Witness ==
    /\ pass = 1
    /\ state.tag = "RecordHeader"
    /\ state.width = Some(2)
    /\ KeptBases(FirstSequenceLine(input).bytes) # FirstSequenceLine(input).bytes
    /\ Len(InRecords(input)) >= 2

(* C8. Malformed input before the first record: when the first byte that is *)
(* not ASCII whitespace is not '>', the run has panicked at that byte and   *)
(* has written nothing.                                                     *)
C8_NonWhitespaceBeforeFirstRecord ==
    LET k == FirstNotIn(input, AsciiWhitespace)
    IN  (k # 0 /\ input[k] # 62) =>
            /\ status = "panic"
            /\ error = MsgBeforeFirst
            /\ k = Len(input)
            /\ output = <<>>

C8_Witness ==
    /\ status = "panic"
    /\ error = MsgBeforeFirst
    /\ Len(input) >= 2
    /\ Last(input) \notin AsciiWhitespace \cup {62}

(* C9. A '>' read in a mid-line sequence state is fatal and writes nothing, *)
(* and nothing happens after the panic; a '>' read in a line-break state is *)
(* never fatal and opens a header.                                          *)
C9_GtWithinSequence ==
    [][ /\ (status = "running" /\ input' = Append(input, 62)
              /\ state.tag \in {"RecordSequenceWithoutWidth", "RecordSequence"})
           => (status' = "panic" /\ error' = MsgWithinSequence /\ output' = output)
        /\ (status = "running" /\ input' = Append(input, 62)
              /\ state.tag \in {"RecordHeaderLineBreak", "RecordSequenceLineBreak"})
           => (status' = "running" /\ state'.tag = "RecordHeader"
               /\ Len(output') > Len(output) /\ Last(output') = 62)
        /\ status = "panic" => UNCHANGED vars
      ]_vars

C9_Witness ==
    /\ status = "panic"
    /\ error = MsgWithinSequence
    /\ state.tag = "RecordSequence"
    /\ Last(input) = 62

(* C10 as stated. Trailing newline: after a clean run on an input with at   *)
(* least one record the last output byte is '\n'.                           *)
C10_TrailingNewlineAlways ==
    (Clean /\ InRecords(input) # <<>>) => (output # <<>> /\ Last(output) = 10)

(* C10 as amended: the same, for inputs that do not end inside a header     *)
(* line (the last record's header line has its terminator).                 *)
C10_TrailingNewline ==
    (Clean /\ InRecords(input) # <<>> /\ Last(InRecords(input)).terminated)
        => (output # <<>> /\ Last(output) = 10)

(* A clean first run that met end of input in mid sequence line.            *)
C10_Witness ==
    /\ Clean
    /\ pass = 1
    /\ state.tag = "RecordSequence"
    /\ Last(input) \notin Terminators
    /\ Last(output) = 10

----------------------------------------------------------------------------
(* C11. Empty-sequence record: in the state after a header line, line       *)
(* terminators change neither the state nor the output, and the next '>'    *)
(* writes exactly that '>' right after the header line's '\n' and carries   *)
(* the width (or its absence) unchanged into the next header.               *)
C11_EmptySequenceRecord ==
    [][ (status = "running" /\ state.tag = "RecordHeaderLineBreak") =>
          /\ Last(output) = 10
          /\ IsHeaderLine(Last(OutLines(output)))
          /\ (last_read'.kind = "Ok" /\ last_read'.value \in Terminators)
                => (state' = state /\ output' = output /\ status' = "running")
          /\ (last_read'.kind = "Ok" /\ last_read'.value = 62)
                => /\ output' = Append(output, 62)
                   /\ state'.tag = "RecordHeader"
                   /\ state'.width = state.width
                   /\ status' = "running"
      ]_vars

(* The third header opened, after a record with a sequence (so a width is   *)
(* known) and a record that has nothing after its header line.              *)
C11_Witness ==
    /\ pass = 1
    /\ state.tag = "RecordHeader"
    /\ state.width # None
    /\ Last(input) = 62
    /\ Len(InRecords(input)) >= 3
    /\ LET recs == InRecords(input) IN
       /\ recs[Len(recs) - 1].terminated
       /\ ~HasSequence(recs[Len(recs) - 1].body)
    /\ LET ls == OutLines(output) IN
       /\ Len(ls) >= 2
       /\ IsHeaderLine(ls[Len(ls) - 1])
       /\ ls[Len(ls)] = <<62>>

(* The line-terminator runs tried in place of one terminator: "\n", "\r",  *)
(* "\r\n", "\n\r", "\n\n".                                                  *)
TerminatorRuns == {<<10>>, <<13>>, <<13, 10>>, <<10, 13>>, <<10, 10>>}

ReplaceAt(s, i, run) == SubSeq(s, 1, i - 1) \o run \o From(s, i + 1)

(* A run that has ended by itself: by end of input or by a malformed input. *)
Ended == status = "done" \/ (status = "panic" /\ error # MsgReadError)

(* C12. Line-terminator equivalence: when a run has ended, the run on the   *)
(* same input with any one line terminator replaced by any run of           *)
(* TerminatorRuns ends the same way with the same output.                   *)
C12_TerminatorEquivalence ==
    Ended =>
        \A i \in 1..Len(input) :
            input[i] \in Terminators =>
                \A run \in TerminatorRuns :
                    LET res == clean_fasta_file(ReplaceAt(input, i, run))
                    IN  /\ res.status = status
                        /\ res.error = error
                        /\ res.output = output

(* A clean first run whose input ends a header line and a sequence line     *)
(* with terminators, a '\r' among them, and goes on after each.             *)
C12_Witness ==
    /\ Clean
    /\ pass = 1
    /\ state.tag = "RecordSequence"
    /\ state.width = 1
    /\ \E i \in 1..Len(input) : input[i] = 13
    /\ \E i \in 1..Len(input) : input[i] = 10

(* C13. Row-counter bound: a state with a width and a row counter has       *)
(* 0 <= current_output_row_width <= width, and the measuring state has      *)
(* current_output_row_width <= current_width and current_width > 0.         *)
C13_RowCounterBound ==
    /\ state.tag \in {"RecordSequence", "RecordSequenceLineBreak"} =>
          (0 <= state.current_output_row_width
             /\ state.current_output_row_width <= state.width)
    /\ state.tag = "RecordSequenceWithoutWidth" =>
          (state.current_output_row_width <= state.current_width
             /\ state.current_width > 0)

(* A full row in the steady state, of a width above 1, with a dropped byte  *)
(* read before.                                                             *)
C13_Witness ==
    /\ status = "running"
    /\ state.tag = "RecordSequence"
    /\ state.width >= 2
    /\ state.current_output_row_width = state.width
    /\ \E i \in 1..Len(input) : input[i] = 120

(* C14. End of input in a sequence state writes exactly one '\n' and stops  *)
(* cleanly, whatever the row counter; a '>' in the line-break state writes  *)
(* a '\n' before it only when the row counter is above 0.                   *)
C14_EofInSequence ==
    [][ (status = "running"
           /\ state.tag \in {"RecordSequenceWithoutWidth",
                             "RecordSequenceLineBreak", "RecordSequence"}) =>
          /\ last_read'.kind = "UnexpectedEof"
                => (status' = "done" /\ output' = Append(output, 10)
                    /\ input' = input)
          /\ (state.tag = "RecordSequenceLineBreak"
                /\ last_read'.kind = "Ok" /\ last_read'.value = 62)
                => output' = output
                        \o (IF state.current_output_row_width > 0
                            THEN <<10>> ELSE <<>>)
                        \o <<62>>
      ]_vars

(* End of input met after a full row was closed: the output ends with an    *)
(* empty line.                                                              *)
C14_Witness ==
    /\ Clean
    /\ pass = 1
    /\ state.tag = "RecordSequenceLineBreak"
    /\ state.current_output_row_width = 0
    /\ Len(output) >= 2
    /\ output[Len(output)] = 10
    /\ output[Len(output) - 1] = 10

(* C15. End of input in a header: in RecordHeader and RecordHeaderLineBreak *)
(* end of input stops the run cleanly and writes nothing; an output cut in  *)
(* a header line ends with the header bytes copied so far, not with '\n'.   *)
C15_EofInHeader ==
    [][ (status = "running"
           /\ state.tag \in {"RecordHeader", "RecordHeaderLineBreak"}
           /\ last_read'.kind = "UnexpectedEof") =>
          /\ status' = "done"
          /\ output' = output
          /\ input' = input
          /\ state' = state
          /\ state.tag = "RecordHeader" =>
                /\ Last(output') # 10
                /\ Last(OutLines(output')) = <<62>> \o Last(InRecords(input')).header
      ]_vars

(* A clean first run cut inside the header line of its second record.       *)
C15_Witness ==
    /\ Clean
    /\ pass = 1
    /\ state.tag = "RecordHeader"
    /\ Len(InRecords(input)) >= 2
    /\ Last(InRecords(input)).header # <<>>
    /\ Last(output) # 10

----------------------------------------------------------------------------
(* C16. Termination: the run stops; an iteration that does not stop the run *)
(* has taken exactly one more byte, in order; a clean stop takes no byte and *)
(* comes from the reader's end of stream only; and a clean run on a byte    *)
(* slice has read the whole slice.                                          *)
C16_Termination ==
    /\ <>(status # "running")
    /\ [][ status = "running" =>
             /\ IsPrefix(input, input')
             /\ Len(input') <= Len(input) + 1
             /\ status' = "running" => Len(input') = Len(input) + 1
             /\ Len(input') = Len(input) + 1
                   => (last_read'.kind = "Ok" /\ Last(input') = last_read'.value)
             /\ status' = "done"
                   => (input' = input /\ last_read'.kind = "UnexpectedEof")
         ]_vars
    /\ [](pass = 2 /\ Clean => input = prev_output)

(* A clean first run that read a header line and sequence bytes up to the  *)
(* end of the stream.                                                       *)
C16_Witness ==
    /\ Clean
    /\ pass = 1
    /\ Len(input) >= 4
    /\ state.tag = "RecordSequenceWithoutWidth"
    /\ last_read.kind = "UnexpectedEof"

(* C17. I/O failure: in every state a read failure other than the end of    *)
(* the stream panics with the read error, moves no state and writes         *)
(* nothing, and what was written stays; the end of the stream is never a    *)
(* failure.                                                                 *)
C17_ReadFailure ==
    [][ status = "running" =>
          /\ last_read'.kind = "Other"
                => /\ status' = "panic"
                   /\ error' = MsgReadError
                   /\ state' = state
                   /\ output' = output
                   /\ input' = input
          /\ last_read'.kind = "UnexpectedEof"
                => (status' = "done" /\ error' = "")
          /\ error' = MsgReadError => last_read'.kind = "Other"
      ]_vars

(* A read failure in the middle of a sequence, after output was written.    *)
C17_Witness ==
    /\ status = "panic"
    /\ error = MsgReadError
    /\ last_read.kind = "Other"
    /\ state.tag = "RecordSequence"
    /\ Len(output) >= 4

(* The whitespace prefixes tried in front of an input: " ", "\t", "\n",    *)
(* form feed, "\r", "\r\n", " \t".                                          *)
WhitespacePrefixes == {<<32>>, <<9>>, <<10>>, <<12>>, <<13>>, <<13, 10>>, <<32, 9>>}

(* C18. Leading whitespace: while only ASCII whitespace was read the        *)
(* automaton is in Init with nothing written, and end of input then stops   *)
(* it cleanly; and when a run has ended, the run on the same input behind   *)
(* any prefix of WhitespacePrefixes ends the same way with the same output. *)
C18_LeadingWhitespace ==
    /\ (\A i \in 1..Len(input) : input[i] \in AsciiWhitespace) =>
          /\ state = StInit
          /\ output = <<>>
          /\ status # "panic" \/ error = MsgReadError
    /\ Ended =>
          \A ws \in WhitespacePrefixes :
              LET res == clean_fasta_file(ws \o input)
              IN  /\ res.status = status
                  /\ res.error = error
                  /\ res.output = output

(* A clean first run that skipped two whitespace bytes and then read a      *)
(* record with a sequence.                                                  *)
C18_Witness ==
    /\ Clean
    /\ pass = 1
    /\ Len(input) >= 5
    /\ input[1] = 32
    /\ input[2] \in AsciiWhitespace
    /\ input[3] = 62
    /\ state.tag = "RecordSequenceWithoutWidth"

(* The length of the output line that is open: the bytes written since the  *)
(* latest '\n'.                                                             *)
OpenLineLength(out) ==
    IF out = <<>> \/ Last(out) = 10 THEN 0 ELSE Len(Last(OutLines(out)))

(* C19. The row counter is the length of the open output line: in every     *)
(* state of the loop that carries a row counter, it equals the number of    *)
(* bytes written since the latest '\n'.                                     *)
C19_RowCounterTracksOutput ==
    (status # "done"
       /\ state.tag \in {"RecordSequenceWithoutWidth", "RecordSequenceLineBreak",
                         "RecordSequence"})
        => state.current_output_row_width = OpenLineLength(output)

(* A second output row, half filled, after a dropped byte.                  *)
C19_Witness ==
    /\ status = "running"
    /\ pass = 1
    /\ state.tag = "RecordSequence"
    /\ state.width >= 2
    /\ state.current_output_row_width = 1
    /\ Len(OutLines(output)) >= 3
    /\ \E i \in 1..Len(input) : input[i] = 120

(* C20. A header's '>' starts an output line: when a step leaves Init,      *)
(* RecordHeaderLineBreak or RecordSequenceLineBreak for RecordHeader, the    *)
(* '>' it writes is the last byte written and the output before it is empty  *)
(* or ends with '\n'.                                                        *)
C20_HeaderStartsLine ==
    [][ (status = "running" /\ state.tag # "RecordHeader"
           /\ state'.tag = "RecordHeader") =>
          /\ Len(output') > Len(output)
          /\ Last(output') = 62
          /\ Len(output') = 1 \/ output'[Len(output') - 1] = 10
          /\ Len(OutLines(output')) = Len(OutLines(SubSeq(output', 1, Len(output') - 1))) + 1
      ]_vars

(* A header opened after a sequence row that was full and already closed.   *)
C20_Witness ==
    /\ pass = 1
    /\ state.tag = "RecordHeader"
    /\ state.width = Some(2)
    /\ Last(input) = 62
    /\ Len(output) >= 5
    /\ output[Len(output) - 1] = 10
    /\ output[Len(output) - 2] = 65
    /\ output[Len(output) - 3] = 65

====
